---- MODULE Spec2Model ----
(***************************************************************************)
(* A model of the flyp-marketplace program                                 *)
(* (src/programs/flyp-marketplace/src/lib.rs): escrow-backed listings and  *)
(* bids for units of an asset, and the settlement split computed on a sale *)
(* or a bid acceptance.                                                    *)
(*                                                                         *)
(* One action models one instruction as a whole: the account validation   *)
(* the #[derive(Accounts)] struct declares, the handler, and the account   *)
(* closing that follows it.  An instruction that returns an error leaves   *)
(* no trace in the accounts (the runtime discards the writes of a failed   *)
(* transaction); the model records its outcome in `last`.                  *)
(***************************************************************************)
EXTENDS Integers, Sequences, FiniteSets, TLC

VARIABLES
    listings,   \* (seller, mint) -> Listing account, or NoAccount
    bids,       \* (bidder, mint) -> Bid account, or NoAccount
    tokens,     \* asset units held by each token account of a mint
    funds,      \* value units held by each payment account
    lamports,   \* storage reserve (rent) balance of each identity
    now,        \* Clock::get()?.unix_timestamp
    last,       \* the last instruction: its call, outcome, transfers, event
    ops,        \* instructions processed so far
    pre,        \* tokens, funds and lamports as they were before `last`
    events,     \* the events emitted so far, in order (emit!)
    calc        \* the settlement computation on its own (SpecCalc)

vars == <<listings, bids, tokens, funds, lamports, now, last, ops, pre, events, calc>>

-----------------------------------------------------------------------------
(* Program constants *)

FEE_DENOMINATOR == 10000
MARKETPLACE_FEE_SHARE == 9000
SECOND_BIDDER_FEE_SHARE == 1000
platform_fee_bps == 250

(* Bounds of the model *)

\* u64 is modelled WordBits wide and u128 twice that, so that a product of
\* two u64 values still fits the wide type, as it does in the program.
WordBits == 12
U64Mod == 2 ^ WordBits
U64Max == U64Mod - 1
U128Mod == U64Mod * U64Mod

MaxCalcPrice == 1000      \* prices of the stand-alone computation: 0..MaxCalcPrice
MaxQuantity == 2          \* quantities a seller asks to list: 0..MaxQuantity
MaxOps == 3               \* instructions of one run

-----------------------------------------------------------------------------
(* Settlement arithmetic *)

Min(a, b) == IF a <= b THEN a ELSE b

\* `x as u64`: the low 64 bits of a u128
AsU64(x) == x % U64Mod

\* (a as u128).checked_mul(b as u128).unwrap().checked_div(d).unwrap() as u64
\* ok is FALSE where an unwrap() panics.
MulDiv(a, b, d) ==
    [ok |-> a * b < U128Mod /\ d # 0,
     val |-> IF d = 0 THEN 0 ELSE AsU64((a * b) \div d)]

\* A creator entry of the metadata: [address, share, verified].
\* The loop of calculate_creator_payments over creators[i..], from the
\* payments and the remaining payment accumulated so far.
RECURSIVE creator_loop(_, _, _, _, _)
creator_loop(price, creators, i, creator_payments, remaining_payment) ==
    IF i > Len(creators)
    THEN [ok |-> TRUE, creator_payments |-> creator_payments,
          remaining_payment |-> remaining_payment]
    ELSE LET creator == creators[i]
             fee == MulDiv(price, creator.share, 100)
         IN  IF ~creator.verified
             THEN creator_loop(price, creators, i + 1,
                               creator_payments, remaining_payment)
             ELSE IF ~fee.ok \/ fee.val > remaining_payment
                  THEN \* checked_mul / checked_sub .unwrap() panics
                       [ok |-> FALSE, creator_payments |-> <<>>,
                        remaining_payment |-> 0]
                  ELSE creator_loop(price, creators, i + 1,
                           Append(creator_payments,
                                  [address |-> creator.address,
                                   amount |-> fee.val]),
                           remaining_payment - fee.val)

\* Mutant: the verified flag is not looked at.
calculate_creator_payments_unverified(price, creators) ==
    creator_loop(price,
                 [i \in 1 .. Len(creators) |->
                     [creators[i] EXCEPT !.verified = TRUE]],
                 1, <<>>, price)

calculate_creator_payments(price, creators) ==
    creator_loop(price, creators, 1, <<>>, price)

total_fee(amount) == MulDiv(amount, platform_fee_bps, FEE_DENOMINATOR)

\* Mutant: the rebate is not capped by the second highest bid.
calculate_and_distribute_fee_uncapped(amount, second_highest_bid) ==
    LET tf == total_fee(amount)
        marketplace_fee == MulDiv(tf.val, MARKETPLACE_FEE_SHARE, FEE_DENOMINATOR)
        second_bidder_fee == MulDiv(tf.val, SECOND_BIDDER_FEE_SHARE, FEE_DENOMINATOR)
    IN  [ok |-> tf.ok /\ marketplace_fee.ok /\ second_bidder_fee.ok
                /\ tf.val <= amount,
         total_fee |-> tf.val,
         marketplace_fee |-> marketplace_fee.val,
         second_bidder_fee |-> second_bidder_fee.val,
         seller_payment |-> IF tf.val <= amount THEN amount - tf.val ELSE 0]

calculate_and_distribute_fee(amount, second_highest_bid) ==
    LET tf == total_fee(amount)
        marketplace_fee == MulDiv(tf.val, MARKETPLACE_FEE_SHARE, FEE_DENOMINATOR)
        second_bidder_fee == MulDiv(tf.val, SECOND_BIDDER_FEE_SHARE, FEE_DENOMINATOR)
        adjusted_second_bidder_fee == Min(second_bidder_fee.val, second_highest_bid)
        adjusted_marketplace_fee ==
            marketplace_fee.val + (second_bidder_fee.val - adjusted_second_bidder_fee)
    IN  [ok |-> tf.ok /\ marketplace_fee.ok /\ second_bidder_fee.ok
                /\ tf.val <= amount                 \* checked_sub
                /\ adjusted_marketplace_fee <= U64Max,
         total_fee |-> tf.val,
         marketplace_fee |-> adjusted_marketplace_fee,
         second_bidder_fee |-> adjusted_second_bidder_fee,
         seller_payment |-> IF tf.val <= amount THEN amount - tf.val ELSE 0]

-----------------------------------------------------------------------------
(* Identities, mints and accounts *)

Ids == {"alice", "bob"}                    \* signers: sellers, buyers, bidders
Assets == {"nftA"}                         \* mints listed and bid on
\* Mint accounts a caller can hand in where the struct ties the mint to
\* nothing (AcceptBid::nft_mint).
Mints == Assets \cup {"nftB"}
CreatorIds == {"creator1", "creator2"}

Keys == Ids \X Assets                      \* seeds of a listing or bid PDA

\* The associated token account of `owner` for `mint`.
TokenAccount(owner, mint) == <<owner, mint>>
\* vault_nft_account: the constraints name the mint and the account itself,
\* and the signer seeds are [b"vault", nft_mint]: one vault per mint.
Vault(mint) == <<"vault", mint>>
TokenAccounts == (Ids \cup {"vault"}) \X Mints

\* A payment account of an identity.
Wallet(id) == <<"wallet", id>>
\* escrow_payment_account of PlaceBid and CancelBid: the constraints name the
\* mint and the account itself: one escrow per mint.
Escrow(mint) == <<"escrow", mint>>
Treasury == Wallet("treasury")             \* marketplace_fee_account
RunnerUp == Wallet("runnerUp")             \* second_bidder_account
PayAccounts ==
    {Wallet(id) : id \in Ids \cup CreatorIds \cup {"treasury", "runnerUp"}}
        \cup {Escrow(m) : m \in Assets}

NoAccount == [exists |-> FALSE]
NoEvent == [kind |-> "none"]

\* The lamports an `init` takes from the payer for a Listing or Bid account,
\* and gives back to the account named by `close`.
Reserve == 1

-----------------------------------------------------------------------------
(* The custody ledger: token::transfer *)

Transfer(ledger, from, to, amount) ==
    [ledger |-> ledger, from |-> from, to |-> to, amount |-> amount]

\* The balances after the transfers xfers[i..] in order; ok is FALSE when one
\* of them finds less than its amount in its source.
RECURSIVE ApplyTransfers(_, _, _, _)
ApplyTransfers(tok, fun, xfers, i) ==
    IF i > Len(xfers)
    THEN [ok |-> TRUE, tokens |-> tok, funds |-> fun]
    ELSE LET x == xfers[i]
             bal == IF x.ledger = "tokens" THEN tok ELSE fun
         IN  IF bal[x.from] < x.amount
             THEN [ok |-> FALSE, tokens |-> tok, funds |-> fun]
             ELSE LET moved == [bal EXCEPT ![x.from] = @ - x.amount,
                                           ![x.to] = @ + x.amount]
                  IN  IF x.ledger = "tokens"
                      THEN ApplyTransfers(moved, fun, xfers, i + 1)
                      ELSE ApplyTransfers(tok, moved, xfers, i + 1)

\* The sum of the amounts of payments[i..].
RECURSIVE SumAmounts(_, _)
SumAmounts(payments, i) ==
    IF i > Len(payments) THEN 0
    ELSE payments[i].amount + SumAmounts(payments, i + 1)

-----------------------------------------------------------------------------
(* transfer_payments *)

\* The creator transfers for creator_payments[i..]: each non-zero amount goes
\* to next_account_info(ctx.remaining_accounts.iter()), the first remaining
\* account of a fresh iterator.  ok is FALSE when there is none.
RECURSIVE creator_transfers(_, _, _, _)
creator_transfers(source, creator_payments, remaining_accounts, i) ==
    IF i > Len(creator_payments)
    THEN [ok |-> TRUE, xfers |-> <<>>]
    ELSE LET rest == creator_transfers(source, creator_payments,
                                       remaining_accounts, i + 1)
             amount == creator_payments[i].amount
         IN  IF amount = 0 THEN rest
             ELSE IF remaining_accounts = <<>>
                  THEN [ok |-> FALSE, xfers |-> <<>>]
                  ELSE [ok |-> rest.ok,
                        xfers |-> <<Transfer("funds", source,
                                     remaining_accounts[1], amount)>>
                                  \o rest.xfers]

\* The transfers transfer_payments issues, in order, out of `source`.
transfer_payments(source, seller_payment_account, seller_payment, creator_payments, remaining_accounts, marketplace_fee, second_bidder_fee) ==
    LET toSeller == IF seller_payment > 0
                    THEN <<Transfer("funds", source, seller_payment_account,
                                    seller_payment)>>
                    ELSE <<>>
        toCreators == creator_transfers(source, creator_payments,
                                        remaining_accounts, 1)
        toMarketplace == IF marketplace_fee > 0
                         THEN <<Transfer("funds", source, Treasury,
                                         marketplace_fee)>>
                         ELSE <<>>
        toSecond == IF second_bidder_fee > 0
                    THEN <<Transfer("funds", source, RunnerUp,
                                    second_bidder_fee)>>
                    ELSE <<>>
    IN  [ok |-> toCreators.ok,
         xfers |-> toSeller \o toCreators.xfers \o toMarketplace \o toSecond]

-----------------------------------------------------------------------------
(* Inputs of the instructions *)

Prices == {0, 400}
Quantities == 0 .. MaxQuantity
\* Clock readings, and the expiry times a caller gives: time 1 is past expiry 0.
Times == {0, 1}
Expiries == {0}
SecondHighestBids == {0, 1}

Creator(address, share, verified) ==
    [address |-> address, share |-> share, verified |-> verified]

\* metadata.data.creators: None is the empty list here, as in the code's loop.
CreatorLists ==
    { <<>>,
      <<Creator("creator1", 0, TRUE), Creator("creator2", 10, TRUE)>>,
      <<Creator("creator1", 50, FALSE), Creator("creator2", 60, TRUE),
        Creator("creator1", 60, TRUE)>> }

\* ctx.remaining_accounts
RemainingAccounts ==
    { <<>>, <<Wallet("creator1"), Wallet("creator2")>> }

-----------------------------------------------------------------------------
(* The state after deployment *)

Snapshot == [tokens |-> tokens, funds |-> funds, lamports |-> lamports]

NoCall ==
    [op |-> "none", caller |-> "none", key |-> <<"none", "none">>,
     result |-> "none", transfers |-> <<>>, event |-> NoEvent,
     round_trip |-> FALSE]

NoCalc == [phase |-> "off"]

InitAccounts ==
    /\ listings = [k \in Keys |-> NoAccount]
    /\ bids = [k \in Keys |-> NoAccount]
    /\ tokens = [a \in TokenAccounts |->
                    IF a = TokenAccount("alice", "nftA") THEN 2
                    ELSE IF a = TokenAccount("bob", "nftA") THEN 1
                    ELSE IF a = TokenAccount("alice", "nftB") THEN 1
                    ELSE 0]
    /\ funds = [a \in PayAccounts |->
                    IF a \in {Wallet(id) : id \in Ids} THEN 400 ELSE 0]
    /\ lamports = [id \in Ids |-> 2 * Reserve]
    /\ now = 0
    /\ last = NoCall
    /\ ops = 0
    /\ pre = Snapshot
    /\ events = <<>>

Init ==
    /\ InitAccounts
    /\ calc = NoCalc

(* Events.  The id of a record is its address, which its key stands for. *)

ListingCreated(listing_id, seller, nft_mint, price, quantity, expiry) ==
    [kind |-> "ListingCreated", listing_id |-> listing_id, seller |-> seller,
     nft_mint |-> nft_mint, price |-> price, quantity |-> quantity,
     expiry |-> expiry]

ListingCancelled(listing_id, seller, nft_mint) ==
    [kind |-> "ListingCancelled", listing_id |-> listing_id,
     seller |-> seller, nft_mint |-> nft_mint]

\* Mutant: buyer and seller change places in the event.
SaleExecuted_swapped(listing_id, buyer, seller, nft_mint, price) ==
    [kind |-> "SaleExecuted", listing_id |-> listing_id, buyer |-> seller,
     seller |-> buyer, nft_mint |-> nft_mint, price |-> price]

SaleExecuted(listing_id, buyer, seller, nft_mint, price) ==
    [kind |-> "SaleExecuted", listing_id |-> listing_id, buyer |-> buyer,
     seller |-> seller, nft_mint |-> nft_mint, price |-> price]

BidPlaced(bid_id, bidder, nft_mint, price, expiry) ==
    [kind |-> "BidPlaced", bid_id |-> bid_id, bidder |-> bidder,
     nft_mint |-> nft_mint, price |-> price, expiry |-> expiry]

BidCancelled(bid_id, bidder, nft_mint) ==
    [kind |-> "BidCancelled", bid_id |-> bid_id, bidder |-> bidder,
     nft_mint |-> nft_mint]

BidAccepted(bid_id, seller, bidder, nft_mint, price) ==
    [kind |-> "BidAccepted", bid_id |-> bid_id, seller |-> seller,
     bidder |-> bidder, nft_mint |-> nft_mint, price |-> price]

\* emit!(event): the event is appended to the log; an instruction that
\* returns an error has emitted none.
emit(event) == IF event = NoEvent THEN events ELSE Append(events, event)

\* What an instruction leaves of itself: the call, its outcome, and the
\* balances it found.
Record(op, caller, key, result, transfers, event) ==
    /\ last' = [op |-> op, caller |-> caller, key |-> key, result |-> result,
                transfers |-> transfers, event |-> event,
                round_trip |-> /\ result = "Ok"
                               /\ last.result = "Ok"
                               /\ last.caller = caller
                               /\ last.key = key
                               /\ \/ op = "cancel_listing" /\ last.op = "create_listing"
                                  \/ op = "cancel_bid" /\ last.op = "place_bid"]
    /\ pre' = Snapshot
    /\ ops' = ops + 1
    /\ events' = emit(event)

\* An instruction that returns an error: the transaction changes no account.
Fail(op, caller, key, error) ==
    /\ Record(op, caller, key, error, <<>>, NoEvent)
    /\ UNCHANGED <<listings, bids, tokens, funds, lamports, now, calc>>

\* Mutant: the error of a failed transfer is swallowed, and the transfers
\* issued before it stay.
transfer_failed_swallowed(op, caller, key, moved) ==
    /\ Record(op, caller, key, "CustodyTransferFailed", <<>>, NoEvent)
    /\ tokens' = moved.tokens
    /\ funds' = moved.funds
    /\ UNCHANGED <<listings, bids, lamports, now, calc>>

\* token::transfer(..)?: a transfer the ledger refuses ends the instruction
\* with its error; `moved`, the balances the earlier transfers of the
\* instruction left, is dropped with the transaction.
transfer_failed(op, caller, key, moved) ==
    Fail(op, caller, key, "CustodyTransferFailed")

-----------------------------------------------------------------------------
(* Listings *)

\* Transfer NFT to PDA
create_listing_transfer(seller, nft_mint, quantity) ==
    Transfer("tokens", TokenAccount(seller, nft_mint), Vault(nft_mint),
             quantity)

create_listing(seller, nft_mint, price, quantity, expiry) ==
    LET key == <<seller, nft_mint>>
        xfers == <<create_listing_transfer(seller, nft_mint, quantity)>>
        moved == ApplyTransfers(tokens, funds, xfers, 1)
    IN  IF listings[key].exists
        THEN Fail("create_listing", seller, key, "AlreadyExists")
        ELSE IF lamports[seller] < Reserve
        THEN Fail("create_listing", seller, key, "InsufficientLamports")
        ELSE IF ~moved.ok
        THEN transfer_failed("create_listing", seller, key, moved)
        ELSE /\ listings' = [listings EXCEPT ![key] =
                    [exists |-> TRUE, seller |-> seller, nft_mint |-> nft_mint,
                     price |-> price, quantity |-> quantity,
                     created_at |-> now, expiry |-> expiry,
                     lamports |-> Reserve]]
             /\ lamports' = [lamports EXCEPT ![seller] = @ - Reserve]
             /\ tokens' = moved.tokens
             /\ funds' = moved.funds
             /\ Record("create_listing", seller, key, "Ok", xfers,
                       ListingCreated(key, seller, nft_mint, price, quantity,
                                      expiry))
             /\ UNCHANGED <<bids, now, calc>>

\* Mutant: any signer passes for the seller of a listing.
has_one_seller_any(seller, listing) == TRUE

\* CancelListing: seeds = [b"listing", seller, listing.nft_mint] and
\* has_one = seller, for the signer `seller`.
has_one_seller(seller, listing) == seller = listing.seller

\* Mutant: one unit goes back, whatever the listing still holds.
cancel_listing_transfer_one(seller, listing) ==
    Transfer("tokens", Vault(listing.nft_mint),
             TokenAccount(seller, listing.nft_mint), 1)

\* Transfer NFT back to seller
cancel_listing_transfer(seller, listing) ==
    Transfer("tokens", Vault(listing.nft_mint),
             TokenAccount(seller, listing.nft_mint), listing.quantity)

\* `seller` is the signer; `key` names the listing account handed in.
cancel_listing(seller, key) ==
    LET listing == listings[key]
        xfers == <<cancel_listing_transfer(seller, listing)>>
        moved == ApplyTransfers(tokens, funds, xfers, 1)
    IN  IF ~listing.exists
        THEN Fail("cancel_listing", seller, key, "NotFound")
        ELSE IF ~has_one_seller(seller, listing)
        THEN Fail("cancel_listing", seller, key, "Unauthorized")
        ELSE IF ~moved.ok
        THEN transfer_failed("cancel_listing", seller, key, moved)
        ELSE /\ listings' = [listings EXCEPT ![key] = NoAccount]  \* close = seller
             /\ lamports' = [lamports EXCEPT ![seller] = @ + listing.lamports]
             /\ tokens' = moved.tokens
             /\ funds' = moved.funds
             /\ Record("cancel_listing", seller, key, "Ok", xfers,
                       ListingCancelled(key, seller, listing.nft_mint))
             /\ UNCHANGED <<bids, now, calc>>

\* The settlement of a price: both computations, then transfer_payments.
Settlement(price, creators, second_highest_bid, source, seller_payment_account, remaining_accounts) ==
    LET royalties == calculate_creator_payments(price, creators)
        fee == calculate_and_distribute_fee(royalties.remaining_payment,
                                            second_highest_bid)
        payments == transfer_payments(source, seller_payment_account,
                        fee.seller_payment, royalties.creator_payments,
                        remaining_accounts, fee.marketplace_fee,
                        fee.second_bidder_fee)
    IN  [error |-> IF ~royalties.ok \/ ~fee.ok THEN "ArithmeticOverflow"
                   ELSE IF ~payments.ok THEN "NotEnoughAccountKeys"
                   ELSE "Ok",
         royalties |-> royalties, fee |-> fee, xfers |-> payments.xfers]

\* Transfer NFT from vault to buyer
execute_sale_transfer(buyer, listing) ==
    Transfer("tokens", Vault(listing.nft_mint),
             TokenAccount(buyer, listing.nft_mint), 1)

\* Mutant: the listing is never closed, only counted down.
listing_after_sale_no_close(listing) ==
    [listing EXCEPT !.quantity = (@ + U64Mod - 1) % U64Mod]

\* Update or close the listing: at quantity 1 its lamports are set to 0 and
\* its data stays as it is (the handler neither clears the data nor gives the
\* account away: the runtime removes it when the transaction ends), else
\* quantity -= 1, which at 0 wraps where it does not panic.
listing_after_sale(listing) ==
    IF listing.quantity = 1
    THEN [listing EXCEPT !.lamports = 0]
    ELSE [listing EXCEPT !.quantity = (@ + U64Mod - 1) % U64Mod]

execute_sale(buyer, key, second_highest_bid, creators, remaining_accounts) ==
    LET listing == listings[key]
        s == Settlement(listing.price, creators, second_highest_bid,
                        Wallet(buyer), Wallet(listing.seller),
                        remaining_accounts)
        xfers == s.xfers \o <<execute_sale_transfer(buyer, listing)>>
        moved == ApplyTransfers(tokens, funds, xfers, 1)
        after == listing_after_sale(listing)
        sold ==
             /\ listings' = [listings EXCEPT ![key] = after]
             /\ lamports' = IF listing.quantity = 1
                            THEN [lamports EXCEPT
                                     ![listing.seller] = @ + listing.lamports]
                            ELSE lamports
             /\ tokens' = moved.tokens
             /\ funds' = moved.funds
             /\ Record("execute_sale", buyer, key, "Ok", xfers,
                       SaleExecuted(key, buyer, listing.seller,
                                    listing.nft_mint, listing.price))
             /\ UNCHANGED <<bids, now, calc>>
    IN  IF ~listing.exists
        THEN Fail("execute_sale", buyer, key, "NotFound")
        ELSE IF s.error # "Ok"
        THEN Fail("execute_sale", buyer, key, s.error)
        ELSE IF ~moved.ok
        THEN transfer_failed("execute_sale", buyer, key, moved)
        ELSE IF listing.quantity # 0
        THEN sold
        ELSE \* quantity -= 1 at 0: a panic where the build checks overflow,
             \* the wrapped value where it does not
             \/ Fail("execute_sale", buyer, key, "ArithmeticOverflow")
             \/ sold

-----------------------------------------------------------------------------
(* Bids *)

\* Transfer bid amount to escrow.  bidder_payment_account is whatever payment
\* account the bidder signs for: here the bidder's own.
place_bid_transfer(bidder, nft_mint, price) ==
    Transfer("funds", Wallet(bidder), Escrow(nft_mint), price)

place_bid(bidder, nft_mint, price, expiry) ==
    LET key == <<bidder, nft_mint>>
        xfers == <<place_bid_transfer(bidder, nft_mint, price)>>
        moved == ApplyTransfers(tokens, funds, xfers, 1)
    IN  IF bids[key].exists
        THEN Fail("place_bid", bidder, key, "AlreadyExists")
        ELSE IF lamports[bidder] < Reserve
        THEN Fail("place_bid", bidder, key, "InsufficientLamports")
        ELSE IF ~moved.ok
        THEN transfer_failed("place_bid", bidder, key, moved)
        ELSE /\ bids' = [bids EXCEPT ![key] =
                    [exists |-> TRUE, bidder |-> bidder, nft_mint |-> nft_mint,
                     price |-> price, created_at |-> now, expiry |-> expiry]]
             /\ lamports' = [lamports EXCEPT ![bidder] = @ - Reserve]
             /\ tokens' = moved.tokens
             /\ funds' = moved.funds
             /\ Record("place_bid", bidder, key, "Ok", xfers,
                       BidPlaced(key, bidder, nft_mint, price, expiry))
             /\ UNCHANGED <<listings, now, calc>>

\* CancelBid: seeds = [b"bid", bidder, bid.nft_mint] and has_one = bidder,
\* for the signer `bidder`.
has_one_bidder(bidder, bid) == bidder = bid.bidder

\* Mutant: the platform fee is kept back from the refund.
cancel_bid_transfer_less_fee(bidder, bid) ==
    Transfer("funds", Escrow(bid.nft_mint), Wallet(bidder),
             bid.price - total_fee(bid.price).val)

\* Transfer bid amount back to bidder
cancel_bid_transfer(bidder, bid) ==
    Transfer("funds", Escrow(bid.nft_mint), Wallet(bidder), bid.price)

\* `bidder` is the signer; `key` names the bid account handed in.
cancel_bid(bidder, key) ==
    LET bid == bids[key]
        xfers == <<cancel_bid_transfer(bidder, bid)>>
        moved == ApplyTransfers(tokens, funds, xfers, 1)
    IN  IF ~bid.exists
        THEN Fail("cancel_bid", bidder, key, "NotFound")
        ELSE IF ~has_one_bidder(bidder, bid)
        THEN Fail("cancel_bid", bidder, key, "Unauthorized")
        ELSE IF ~moved.ok
        THEN transfer_failed("cancel_bid", bidder, key, moved)
        ELSE /\ bids' = [bids EXCEPT ![key] = NoAccount]      \* close = bidder
             /\ lamports' = [lamports EXCEPT ![bidder] = @ + Reserve]
             /\ tokens' = moved.tokens
             /\ funds' = moved.funds
             /\ Record("cancel_bid", bidder, key, "Ok", xfers,
                       BidCancelled(key, bid.bidder, bid.nft_mint))
             /\ UNCHANGED <<listings, now, calc>>

\* `seller` is the signer; `key` names the bid account, `nft_mint` the mint
\* account and `escrow` the mint of the escrow_payment_account handed in:
\* AcceptBid ties neither of the two to the bid.
\* Transfer NFT to bidder
accept_bid_transfer(seller, bid, nft_mint) ==
    Transfer("tokens", TokenAccount(seller, nft_mint),
             TokenAccount(bid.bidder, nft_mint), 1)

accept_bid(seller, key, nft_mint, escrow, second_highest_bid, creators, remaining_accounts) ==
    LET bid == bids[key]
        s == Settlement(bid.price, creators, second_highest_bid,
                        Escrow(escrow), Wallet(seller), remaining_accounts)
        xfers == s.xfers \o <<accept_bid_transfer(seller, bid, nft_mint)>>
        moved == ApplyTransfers(tokens, funds, xfers, 1)
    IN  IF ~bid.exists
        THEN Fail("accept_bid", seller, key, "NotFound")
        ELSE IF s.error # "Ok"
        THEN Fail("accept_bid", seller, key, s.error)
        ELSE IF ~moved.ok
        THEN transfer_failed("accept_bid", seller, key, moved)
        ELSE /\ bids' = [bids EXCEPT ![key] = NoAccount]      \* close = seller
             /\ lamports' = [lamports EXCEPT ![seller] = @ + Reserve]
             /\ tokens' = moved.tokens
             /\ funds' = moved.funds
             /\ Record("accept_bid", seller, key, "Ok", xfers,
                       BidAccepted(key, seller, bid.bidder, bid.nft_mint,
                                   bid.price))
             /\ UNCHANGED <<listings, now, calc>>

\* A Listing account the handler of execute_sale has emptied of lamports.
Drained(listing) == listing.exists /\ listing.lamports = 0

\* A Listing record as the ledger keeps it between transactions.
Live(listing) == listing.exists /\ listing.lamports > 0

\* The transaction ends: the runtime drops every account left without
\* lamports.  Until then the instructions that follow in the transaction
\* find the account with its data.
EndTransaction ==
    /\ \E k \in Keys : Drained(listings[k])
    /\ listings' = [k \in Keys |->
                       IF Drained(listings[k]) THEN NoAccount ELSE listings[k]]
    /\ UNCHANGED <<bids, tokens, funds, lamports, now, last, ops, pre, events, calc>>

\* Mutant: the passing of time sweeps away the records whose expiry it
\* reaches.
Tick_purging ==
    /\ now + 1 \in Times
    /\ now' = now + 1
    /\ listings' = [k \in Keys |->
                       IF listings[k].exists /\ listings[k].expiry <= now + 1
                       THEN NoAccount ELSE listings[k]]
    /\ bids' = [k \in Keys |->
                   IF bids[k].exists /\ bids[k].expiry <= now + 1
                   THEN NoAccount ELSE bids[k]]
    /\ UNCHANGED <<tokens, funds, lamports, last, ops, pre, events, calc>>

\* Time passes between transactions.
Tick ==
    /\ now + 1 \in Times
    /\ now' = now + 1
    /\ UNCHANGED <<listings, bids, tokens, funds, lamports, last, ops, pre, events, calc>>

-----------------------------------------------------------------------------
(* The program: any instruction, from any signer, on any accounts *)

CreateListing ==
    /\ ops < MaxOps
    /\ \E seller \in Ids, nft_mint \in Assets, price \in Prices,
       quantity \in Quantities, expiry \in Expiries :
        create_listing(seller, nft_mint, price, quantity, expiry)

CancelListing ==
    /\ ops < MaxOps
    /\ \E seller \in Ids, key \in Keys : cancel_listing(seller, key)

\* The arguments and the metadata are looked at only once the listing
\* account has been found.
ExecuteSale ==
    /\ ops < MaxOps
    /\ \E buyer \in Ids, key \in Keys :
          IF ~listings[key].exists
          THEN execute_sale(buyer, key, 0, <<>>, <<>>)
          ELSE \E second_highest_bid \in SecondHighestBids,
                  creators \in CreatorLists,
                  remaining_accounts \in RemainingAccounts :
                   execute_sale(buyer, key, second_highest_bid, creators,
                                remaining_accounts)

PlaceBid ==
    /\ ops < MaxOps
    /\ \E bidder \in Ids, nft_mint \in Assets, price \in Prices,
       expiry \in Expiries :
        place_bid(bidder, nft_mint, price, expiry)

CancelBid ==
    /\ ops < MaxOps
    /\ \E bidder \in Ids, key \in Keys : cancel_bid(bidder, key)

\* The arguments and the other accounts are looked at only once the bid
\* account has been found.
AcceptBid ==
    /\ ops < MaxOps
    /\ \E seller \in Ids, key \in Keys :
          IF ~bids[key].exists
          THEN accept_bid(seller, key, key[2], key[2], 0, <<>>, <<>>)
          ELSE \E nft_mint \in Mints, escrow \in Assets,
                  second_highest_bid \in SecondHighestBids,
                  creators \in CreatorLists,
                  remaining_accounts \in RemainingAccounts :
                   accept_bid(seller, key, nft_mint, escrow,
                              second_highest_bid, creators, remaining_accounts)

Next ==
    \/ CreateListing
    \/ CancelListing
    \/ ExecuteSale
    \/ PlaceBid
    \/ CancelBid
    \/ AcceptBid
    \/ EndTransaction
    \/ Tick

Spec == Init /\ [][Next]_vars

-----------------------------------------------------------------------------
(* The settlement computation on its own: calculate_creator_payments on a  *)
(* price and a creator list, then calculate_and_distribute_fee on what     *)
(* remains.                                                                *)

\* creator.share is a u8: 255 is its largest value.
CalcShares == {0, 10, 60, 255}
\* price: u64, sampled at its low end and at its largest value.
CalcPrices == (0 .. MaxCalcPrice) \cup {U64Max}
CalcSecondHighestBids == {0, 1, 5}

CalcEntries == [share : CalcShares, verified : BOOLEAN]

CalcCreatorLists ==
    {<<>>}
      \cup {<<Creator("creator1", c.share, c.verified)>> : c \in CalcEntries}
      \cup {<<Creator("creator1", c.share, c.verified),
              Creator("creator2", d.share, d.verified)>> :
                c \in CalcEntries, d \in CalcEntries}

InitCalc ==
    /\ InitAccounts
    /\ \E price \in CalcPrices, creators \in CalcCreatorLists :
          calc = [phase |-> "input", price |-> price, creators |-> creators]

ComputeRoyalties ==
    /\ calc.phase = "input"
    /\ calc' = [phase |-> "royalties", price |-> calc.price,
                creators |-> calc.creators,
                royalties |-> calculate_creator_payments(calc.price,
                                                         calc.creators)]
    /\ UNCHANGED <<listings, bids, tokens, funds, lamports, now, last, ops, pre, events>>

ComputeSplit ==
    /\ calc.phase = "royalties"
    /\ calc.royalties.ok
    /\ \E second_highest_bid \in CalcSecondHighestBids :
          calc' = [phase |-> "split", price |-> calc.price,
                   creators |-> calc.creators, royalties |-> calc.royalties,
                   second_highest_bid |-> second_highest_bid,
                   fee |-> calculate_and_distribute_fee(
                               calc.royalties.remaining_payment,
                               second_highest_bid)]
    /\ UNCHANGED <<listings, bids, tokens, funds, lamports, now, last, ops, pre, events>>

\* transfer_payments on what the two computations gave, for a buyer alice
\* paying a seller bob.
ComputeTransfers ==
    /\ calc.phase = "split"
    /\ calc.fee.ok
    /\ \E remaining_accounts \in RemainingAccounts :
          calc' = [phase |-> "transfers", price |-> calc.price,
                   creators |-> calc.creators, royalties |-> calc.royalties,
                   second_highest_bid |-> calc.second_highest_bid,
                   fee |-> calc.fee,
                   remaining_accounts |-> remaining_accounts,
                   payments |-> transfer_payments(
                                   Wallet("alice"), Wallet("bob"),
                                   calc.fee.seller_payment,
                                   calc.royalties.creator_payments,
                                   remaining_accounts,
                                   calc.fee.marketplace_fee,
                                   calc.fee.second_bidder_fee)]
    /\ UNCHANGED <<listings, bids, tokens, funds, lamports, now, last, ops, pre, events>>

NextCalc ==
    \/ ComputeRoyalties
    \/ ComputeSplit
    \/ ComputeTransfers

SpecCalc == InitCalc /\ [][NextCalc]_vars

-----------------------------------------------------------------------------
(* Properties of the settlement computation (checked under SpecCalc) *)

Floor(a, b, d) == (a * b) \div d

Verified(creators) == SelectSeq(creators, LAMBDA c : c.verified)

RECURSIVE ShareSum(_, _)
ShareSum(creators, i) ==
    IF i > Len(creators) THEN 0
    ELSE creators[i].share + ShareSum(creators, i + 1)

\* C1: for every remainder and second highest bid, the platform split gives
\* marketplaceFee + rebateFee = totalFee = floor(remainder * 250 / 10000), and
\* so marketplaceFee + rebateFee + sellerPayment = remainder.
C1_SplitConserves ==
    calc.phase = "split" =>
        LET remainder == calc.royalties.remaining_payment
            fee == calc.fee
        IN  /\ fee.ok
            /\ fee.total_fee = Floor(remainder, 250, 10000)
            /\ fee.marketplace_fee + fee.second_bidder_fee = fee.total_fee
            /\ fee.marketplace_fee + fee.second_bidder_fee + fee.seller_payment
                   = remainder

\* C3: price 1000, one verified creator with share 10, second highest bid 0
\* settle as creatorFee 100, remainder 900, totalFee 22, rebateFee 0,
\* marketplaceFee 22, sellerPayment 878.
C3_ConcreteSettlement ==
    (/\ calc.phase = "split"
     /\ calc.price = 1000
     /\ calc.creators = <<Creator("creator1", 10, TRUE)>>
     /\ calc.second_highest_bid = 0)
    => /\ calc.royalties.creator_payments
              = <<[address |-> "creator1", amount |-> 100]>>
       /\ calc.royalties.remaining_payment = 900
       /\ calc.fee.total_fee = 22
       /\ calc.fee.second_bidder_fee = 0
       /\ calc.fee.marketplace_fee = 22
       /\ calc.fee.seller_payment = 878

\* C4: for a price > 0 and verified shares summing to at most 100,
\* calculate_creator_payments gives one payment of floor(price * share / 100)
\* per verified creator, in order, none for an unverified one, and the
\* payments and the remainder sum to the price.
C4_RoyaltiesExact ==
    (/\ calc.phase \in {"royalties", "split"}
     /\ calc.price > 0
     /\ ShareSum(Verified(calc.creators), 1) <= 100)
    => LET v == Verified(calc.creators)
           r == calc.royalties
       IN  /\ r.ok
           /\ Len(r.creator_payments) = Len(v)
           /\ \A i \in 1 .. Len(v) :
                 /\ r.creator_payments[i].address = v[i].address
                 /\ r.creator_payments[i].amount
                        = Floor(calc.price, v[i].share, 100)
           /\ SumAmounts(r.creator_payments, 1) + r.remaining_payment
                  = calc.price

\* A rounded-down payment to the second creator, the first one unverified.
C4_Witness ==
    /\ calc.phase = "royalties"
    /\ calc.price = 999
    /\ calc.creators = <<Creator("creator1", 60, FALSE),
                         Creator("creator2", 10, TRUE)>>
    /\ calc.royalties.ok
    /\ calc.royalties.creator_payments
           = <<[address |-> "creator2", amount |-> 99]>>
    /\ calc.royalties.remaining_payment = 900

\* C5: the rebate is min(floor(totalFee * 1000 / 10000), secondHighestBid): at
\* most the second highest bid, at most the nominal rebate, and 0 for a second
\* highest bid of 0.
C5_RebateCapped ==
    calc.phase = "split" =>
        LET remainder == calc.royalties.remaining_payment
            nominal == Floor(Floor(remainder, 250, 10000), 1000, 10000)
            rebate == calc.fee.second_bidder_fee
        IN  /\ rebate = Min(nominal, calc.second_highest_bid)
            /\ rebate <= calc.second_highest_bid
            /\ rebate <= nominal
            /\ calc.second_highest_bid = 0 => rebate = 0

\* The cap binds: a nominal rebate of 2 against a second highest bid of 1.
C5_Witness ==
    /\ calc.phase = "split"
    /\ Floor(calc.fee.total_fee, 1000, 10000) = 2
    /\ calc.second_highest_bid = 1
    /\ calc.fee.second_bidder_fee = 1
-----------------------------------------------------------------------------
(* Properties of the instructions (checked under Spec) *)

\* This step processes an instruction `op`.
Step(op) == ops' = ops + 1 /\ last'.op = op

\* The value units the transfers xfers[i..] move.
RECURSIVE FundsMoved(_, _)
FundsMoved(xfers, i) ==
    IF i > Len(xfers) THEN 0
    ELSE (IF xfers[i].ledger = "funds" THEN xfers[i].amount ELSE 0)
             + FundsMoved(xfers, i + 1)

\* C2: in a successful execute_sale or accept_bid the amounts transferred out
\* of the funding source (seller proceeds, royalties, marketplace fee, rebate)
\* sum to the gross price.
C2_SettlementPaysPrice ==
    (last.op \in {"execute_sale", "accept_bid"} /\ last.result = "Ok")
    => FundsMoved(last.transfers, 1) = last.event.price

C7_ListingRoundTrip ==
    [][ (Step("cancel_listing") /\ last'.result = "Ok")
        => LET key == last'.key
               listing == listings[key]
               vault == Vault(listing.nft_mint)
               seller == TokenAccount(last'.caller, listing.nft_mint)
           IN  /\ listings'[key] = NoAccount
               /\ tokens' = [tokens EXCEPT ![vault] = @ - listing.quantity,
                                           ![seller] = @ + listing.quantity]
               /\ (/\ last.op = "create_listing"
                   /\ last.result = "Ok"
                   /\ last.caller = last'.caller
                   /\ last.key = key)
                  => /\ tokens'[seller] = pre.tokens[seller]
                     /\ tokens'[vault] = pre.tokens[vault]
                     /\ tokens' = pre.tokens
      ]_vars

\* Two units listed and taken back by the next instruction.
C7_Witness ==
    /\ last.op = "cancel_listing"
    /\ last.result = "Ok"
    /\ last.round_trip
    /\ last.transfers[1].amount = 2
    /\ ~listings[last.key].exists
    /\ tokens[TokenAccount(last.caller, last.key[2])] = 2

\* C8: cancel_bid returns the escrowed price to the bidder and destroys the
\* record; right after the place_bid of the same bidder and asset it leaves
\* the bidder's holding and the escrow as they were before the place, and no
\* Bid record.
C8_BidRoundTrip ==
    [][ (Step("cancel_bid") /\ last'.result = "Ok")
        => LET key == last'.key
               bid == bids[key]
               escrow == Escrow(bid.nft_mint)
               bidder == Wallet(last'.caller)
           IN  /\ bids'[key] = NoAccount
               /\ funds' = [funds EXCEPT ![escrow] = @ - bid.price,
                                         ![bidder] = @ + bid.price]
               /\ (/\ last.op = "place_bid"
                   /\ last.result = "Ok"
                   /\ last.caller = last'.caller
                   /\ last.key = key)
                  => /\ funds'[bidder] = pre.funds[bidder]
                     /\ funds'[escrow] = pre.funds[escrow]
                     /\ funds' = pre.funds
      ]_vars

\* A bid of 400 placed and taken back by the next instruction.
C8_Witness ==
    /\ last.op = "cancel_bid"
    /\ last.result = "Ok"
    /\ last.round_trip
    /\ last.transfers[1].amount = 400
    /\ ~bids[last.key].exists
    /\ funds[Wallet(last.caller)] = 400

\* C9: a cancel_listing or cancel_bid by a caller who is not the record's
\* stored owner fails with Unauthorized, moves nothing and changes no record;
\* a record is cancelled only by the identity that created it.
C9_CancelByOwnerOnly ==
    [][ /\ (\/ /\ Step("cancel_listing")
               /\ listings[last'.key].exists
               /\ last'.caller # listings[last'.key].seller
            \/ /\ Step("cancel_bid")
               /\ bids[last'.key].exists
               /\ last'.caller # bids[last'.key].bidder)
           => /\ last'.result = "Unauthorized"
              /\ last'.transfers = <<>>
              /\ UNCHANGED <<listings, bids, tokens, funds, lamports>>
        /\ (Step("cancel_listing") /\ last'.result = "Ok")
           => /\ last'.caller = listings[last'.key].seller
              /\ last'.caller = last'.key[1]
        /\ (Step("cancel_bid") /\ last'.result = "Ok")
           => /\ last'.caller = bids[last'.key].bidder
              /\ last'.caller = last'.key[1]
      ]_vars

\* A signer refused on another seller's listing, which holds units.
C9_Witness ==
    /\ last.op = "cancel_listing"
    /\ last.result = "Unauthorized"
    /\ listings[last.key].exists
    /\ listings[last.key].seller # last.caller
    /\ listings[last.key].quantity > 0
    /\ tokens = pre.tokens

\* C10: create_listing with price 0 or quantity 0 and place_bid with price 0
\* fail with ValidationError and leave nothing; every record has a price > 0
\* and every listing was created with a quantity > 0.
C10_Validation ==
    /\ \A k \in Keys : listings[k].exists => listings[k].price > 0
    /\ \A k \in Keys : bids[k].exists => bids[k].price > 0
    /\ (last.op = "create_listing" /\ last.result = "Ok")
       => last.event.price > 0 /\ last.event.quantity > 0
    /\ (last.op = "place_bid" /\ last.result = "Ok")
       => last.event.price > 0

\* C11: every Bid record that exists has exactly its price in the escrow
\* holding of its asset, from place_bid until cancel_bid or accept_bid
\* destroys it, whatever other instructions run in between.
C11_EscrowHoldsPrice ==
    \A k \in Keys :
        bids[k].exists => funds[Escrow(bids[k].nft_mint)] = bids[k].price

\* C12: every Listing record that exists has at most as many units left as
\* the vault of its asset holds, and keeps the price it was created with.
C12_ListingBacked ==
    [][ \A k \in Keys :
           /\ Live(listings'[k]) =>
                 listings'[k].quantity <= tokens'[Vault(listings'[k].nft_mint)]
           /\ (listings[k].exists /\ listings'[k].exists) =>
                 listings'[k].price = listings[k].price
      ]_vars

\* C13: an instruction that fails at any step leaves every Listing and Bid
\* record and every holding (asset units, value units, storage reserve) as
\* it was before the call: no record created, no quantity decremented, no
\* payment kept.
C13_AllOrNothing ==
    [][ (ops' = ops + 1 /\ last'.result # "Ok")
        => UNCHANGED <<listings, bids, tokens, funds, lamports>>
      ]_vars

\* A sale that fails at its asset transfer (the vault is empty) after the
\* buyer could pay the seller: the payment is not kept.
C13_Witness ==
    /\ last.op = "execute_sale"
    /\ last.result = "CustodyTransferFailed"
    /\ listings[last.key].exists
    /\ listings[last.key].price > 0
    /\ funds[Wallet(last.caller)] >= listings[last.key].price
    /\ tokens[Vault(listings[last.key].nft_mint)] = 0
    /\ funds = pre.funds
    /\ tokens = pre.tokens

\* C14: a successful accept_bid pays seller, creators, marketplace and
\* runner-up out of the escrow of the accepted bid and out of no other
\* account, moves exactly 1 unit of the bid's asset from the accepting seller
\* to the bidder, and destroys the Bid record; an accept_bid by a caller who
\* holds no unit of the bid's asset fails and changes nothing.
C14_AcceptSettlesFromEscrow ==
    [][ /\ (Step("accept_bid") /\ last'.result = "Ok")
           => LET key == last'.key
                  bid == bids[key]
                  seller == TokenAccount(last'.caller, bid.nft_mint)
                  bidder == TokenAccount(bid.bidder, bid.nft_mint)
              IN  /\ \A i \in 1 .. Len(last'.transfers) :
                        last'.transfers[i].ledger = "funds"
                        => last'.transfers[i].from = Escrow(bid.nft_mint)
                  /\ tokens' = [tokens EXCEPT ![seller] = @ - 1,
                                              ![bidder] = @ + 1]
                  /\ bids'[key] = NoAccount
        /\ (/\ Step("accept_bid")
            /\ bids[last'.key].exists
            /\ tokens[TokenAccount(last'.caller,
                                   bids[last'.key].nft_mint)] < 1)
           => /\ last'.result # "Ok"
              /\ UNCHANGED <<listings, bids, tokens, funds, lamports>>
      ]_vars

\* C15: an execute_sale against a listing whose quantity is 0 is rejected:
\* no funds and no asset units move and the record stays as it was; and no
\* sale leaves a listing with more units than it had (the quantity never
\* wraps below 0).
C15_SaleNeedsAUnit ==
    [][ /\ (/\ Step("execute_sale")
            /\ listings[last'.key].exists
            /\ listings[last'.key].quantity = 0)
           => /\ last'.result # "Ok"
              /\ UNCHANGED <<listings, bids, tokens, funds, lamports>>
        /\ \A k \in Keys :
              (Step("execute_sale") /\ listings[k].exists /\ listings'[k].exists)
              => listings'[k].quantity <= listings[k].quantity
      ]_vars

\* C16: royalty and fee arithmetic never wraps or truncates: for every price
\* and every creator share, a computation that does not fail gives each
\* verified creator exactly floor(price * share / 100) and the platform
\* exactly floor(remainder * 250 / 10000), split as floor(. * 9000 / 10000)
\* and floor(. * 1000 / 10000), every value within the u64 range.
C16_NoSilentTruncation ==
    /\ (calc.phase \in {"royalties", "split"} /\ calc.royalties.ok)
       => LET v == Verified(calc.creators)
              r == calc.royalties
          IN  /\ Len(r.creator_payments) = Len(v)
              /\ \A i \in 1 .. Len(v) :
                    /\ r.creator_payments[i].amount
                           = Floor(calc.price, v[i].share, 100)
                    /\ r.creator_payments[i].amount <= U64Max
    /\ (calc.phase = "split" /\ calc.fee.ok)
       => LET remainder == calc.royalties.remaining_payment
              fee == calc.fee
          IN  /\ fee.total_fee = Floor(remainder, 250, 10000)
              /\ fee.total_fee <= U64Max
              /\ fee.marketplace_fee + fee.second_bidder_fee <= fee.total_fee
              /\ fee.seller_payment = remainder - fee.total_fee

\* The payments of a list that are not zero, in order.
NonZero(payments) == SelectSeq(payments, LAMBDA p : p.amount > 0)

\* C17: transfer_payments issues its transfers in the order seller, creators
\* in list order, marketplace, runner-up; none for a zero amount; and every
\* non-zero creator payment goes to the holding of the creator it was
\* computed for, also when an earlier creator's payment is zero.
C17_TransferOrder ==
    (calc.phase = "transfers" /\ calc.payments.ok)
    => LET source == Wallet("alice")
           due == NonZero(calc.royalties.creator_payments)
           toSeller ==
               IF calc.fee.seller_payment > 0
               THEN <<Transfer("funds", source, Wallet("bob"),
                               calc.fee.seller_payment)>>
               ELSE <<>>
           toCreators ==
               [i \in 1 .. Len(due) |->
                   Transfer("funds", source, Wallet(due[i].address),
                            due[i].amount)]
           toMarketplace ==
               IF calc.fee.marketplace_fee > 0
               THEN <<Transfer("funds", source, Treasury,
                               calc.fee.marketplace_fee)>>
               ELSE <<>>
           toSecond ==
               IF calc.fee.second_bidder_fee > 0
               THEN <<Transfer("funds", source, RunnerUp,
                               calc.fee.second_bidder_fee)>>
               ELSE <<>>
       IN  /\ \A i \in 1 .. Len(calc.payments.xfers) :
                 calc.payments.xfers[i].amount > 0
           /\ calc.payments.xfers
                  = toSeller \o toCreators \o toMarketplace \o toSecond

\* The ledger after bob has listed one unit of nftA at 400: the program's
\* state from which C18 is examined.
InitListed ==
    /\ listings = [k \in Keys |->
                      IF k = <<"bob", "nftA">>
                      THEN [exists |-> TRUE, seller |-> "bob",
                            nft_mint |-> "nftA", price |-> 400,
                            quantity |-> 1, created_at |-> 0, expiry |-> 0,
                            lamports |-> Reserve]
                      ELSE NoAccount]
    /\ bids = [k \in Keys |-> NoAccount]
    /\ tokens = [a \in TokenAccounts |->
                    IF a = TokenAccount("alice", "nftA") THEN 2
                    ELSE IF a = Vault("nftA") THEN 1
                    ELSE IF a = TokenAccount("alice", "nftB") THEN 1
                    ELSE 0]
    /\ funds = [a \in PayAccounts |->
                    IF a \in {Wallet(id) : id \in Ids} THEN 400 ELSE 0]
    /\ lamports = [id \in Ids |-> IF id = "bob" THEN Reserve ELSE 2 * Reserve]
    /\ now = 0
    /\ last = NoCall
    /\ ops = 0
    /\ pre = Snapshot
    /\ events = <<>>
    /\ calc = NoCalc

SpecListed == InitListed /\ [][Next]_vars

\* C18: both end states are terminal.  A successful cancel, a sale of the
\* last unit and an accept end the record; once a Listing is cancelled or
\* sold down to 0, or a Bid is cancelled or accepted, every cancel,
\* execute_sale or accept_bid naming it fails (NotFound where the record is
\* gone) and moves nothing; and a record comes to exist only by a
\* successful create_listing or place_bid for its key.  So no record is
\* cancelled after it was fulfilled, fulfilled after it was cancelled, or
\* fulfilled twice.
C18_TerminalStates ==
    [][ /\ ((Step("cancel_listing") \/ Step("execute_sale"))
             /\ ~Live(listings[last'.key]))
           => /\ last'.result # "Ok"
              /\ ~listings[last'.key].exists => last'.result = "NotFound"
              /\ last'.transfers = <<>>
              /\ UNCHANGED <<listings, bids, tokens, funds, lamports>>
        /\ ((Step("cancel_bid") \/ Step("accept_bid"))
             /\ ~bids[last'.key].exists)
           => /\ last'.result = "NotFound"
              /\ last'.transfers = <<>>
              /\ UNCHANGED <<listings, bids, tokens, funds, lamports>>
        /\ (Step("cancel_listing") /\ last'.result = "Ok")
           => ~Live(listings'[last'.key])
        /\ (/\ Step("execute_sale")
            /\ last'.result = "Ok"
            /\ listings[last'.key].quantity = 1)
           => ~Live(listings'[last'.key])
        /\ ((Step("cancel_bid") \/ Step("accept_bid")) /\ last'.result = "Ok")
           => ~bids'[last'.key].exists
        /\ \A k \in Keys :
              /\ (~listings[k].exists /\ listings'[k].exists)
                 => /\ Step("create_listing")
                    /\ last'.key = k
                    /\ last'.result = "Ok"
              /\ (~bids[k].exists /\ bids'[k].exists)
                 => /\ Step("place_bid")
                    /\ last'.key = k
                    /\ last'.result = "Ok"
      ]_vars

\* C19: every successful instruction appends exactly one event, of the kind
\* of the instruction, that carries the record's id, its owner, its asset and
\* the price, quantity and expiry the instruction dealt with; a failed
\* instruction appends none; nothing else touches the log, so it only grows
\* and holds the events in the order the instructions completed.
C19_EventLog ==
    [][ LET key == last'.key
            caller == last'.caller
            ok == last'.result = "Ok"
        IN  /\ ops' = ops => events' = events
            /\ (ops' = ops + 1 /\ ~ok) => events' = events
            /\ (ops' = ops + 1 /\ ok) => Len(events') = Len(events) + 1
            /\ \A i \in 1 .. Len(events) : events'[i] = events[i]
            /\ (Step("create_listing") /\ ok)
               => events' = Append(events,
                      [kind |-> "ListingCreated", listing_id |-> key,
                       seller |-> caller, nft_mint |-> key[2],
                       price |-> listings'[key].price,
                       quantity |-> listings'[key].quantity,
                       expiry |-> listings'[key].expiry])
            /\ (Step("cancel_listing") /\ ok)
               => events' = Append(events,
                      [kind |-> "ListingCancelled", listing_id |-> key,
                       seller |-> listings[key].seller,
                       nft_mint |-> listings[key].nft_mint])
            /\ (Step("execute_sale") /\ ok)
               => events' = Append(events,
                      [kind |-> "SaleExecuted", listing_id |-> key,
                       buyer |-> caller, seller |-> listings[key].seller,
                       nft_mint |-> listings[key].nft_mint,
                       price |-> listings[key].price])
            /\ (Step("place_bid") /\ ok)
               => events' = Append(events,
                      [kind |-> "BidPlaced", bid_id |-> key,
                       bidder |-> caller, nft_mint |-> key[2],
                       price |-> bids'[key].price,
                       expiry |-> bids'[key].expiry])
            /\ (Step("cancel_bid") /\ ok)
               => events' = Append(events,
                      [kind |-> "BidCancelled", bid_id |-> key,
                       bidder |-> bids[key].bidder,
                       nft_mint |-> bids[key].nft_mint])
            /\ (Step("accept_bid") /\ ok)
               => events' = Append(events,
                      [kind |-> "BidAccepted", bid_id |-> key,
                       seller |-> caller, bidder |-> bids[key].bidder,
                       nft_mint |-> bids[key].nft_mint,
                       price |-> bids[key].price])
      ]_vars

\* Three instructions, the second of which failed: the log holds the events
\* of the other two, the listing's and then the sale's.
C19_Witness ==
    /\ ops = 3
    /\ Len(events) = 2
    /\ events[1].kind = "ListingCreated"
    /\ events[1].price = 400
    /\ events[2].kind = "SaleExecuted"
    /\ events[2].price = 400
    /\ events[2].listing_id = events[1].listing_id
    /\ events[2].buyer # events[2].seller
    /\ last.op = "execute_sale"
    /\ last.result = "Ok"

\* C20: instructions on distinct (owner, asset) keys share no mutable state:
\* an instruction on one Listing or Bid leaves every other key's record as
\* it is, and with it the vault or escrow holding that backs that record
\* (from which it follows that two instructions on distinct keys give the
\* same state in either order).
C20_KeysIndependent ==
    [][ \A k \in Keys :
           (ops' = ops + 1 /\ last'.key # k)
           => /\ listings'[k] = listings[k]
              /\ bids'[k] = bids[k]
              /\ Live(listings[k])
                 => tokens'[Vault(listings[k].nft_mint)]
                        = tokens[Vault(listings[k].nft_mint)]
              /\ bids[k].exists
                 => funds'[Escrow(bids[k].nft_mint)]
                        = funds[Escrow(bids[k].nft_mint)]
      ]_vars

-----------------------------------------------------------------------------
(* Expiry *)

\* The ledger with bob's listing of one unit of nftA and alice's bid on
\* nftA in place, both at 400 and both expiring at time 1, read either
\* before that time or after it.
InitExpiry ==
    /\ listings = [k \in Keys |->
                      IF k = <<"bob", "nftA">>
                      THEN [exists |-> TRUE, seller |-> "bob",
                            nft_mint |-> "nftA", price |-> 400,
                            quantity |-> 1, created_at |-> 0, expiry |-> 1,
                            lamports |-> Reserve]
                      ELSE NoAccount]
    /\ bids = [k \in Keys |->
                  IF k = <<"alice", "nftA">>
                  THEN [exists |-> TRUE, bidder |-> "alice",
                        nft_mint |-> "nftA", price |-> 400,
                        created_at |-> 0, expiry |-> 1]
                  ELSE NoAccount]
    /\ tokens = [a \in TokenAccounts |->
                    IF a = TokenAccount("alice", "nftA") THEN 2
                    ELSE IF a = Vault("nftA") THEN 1
                    ELSE IF a = TokenAccount("alice", "nftB") THEN 1
                    ELSE 0]
    /\ funds = [a \in PayAccounts |->
                    IF a = Wallet("bob") THEN 400
                    ELSE IF a = Escrow("nftA") THEN 400
                    ELSE 0]
    /\ lamports = [id \in Ids |-> Reserve]
    /\ now \in {0, 2}
    /\ last = NoCall
    /\ ops = 0
    /\ pre = Snapshot
    /\ events = <<>>
    /\ calc = NoCalc

\* The instructions that find a record in place, the end of a transaction and
\* the passing of time.
NextExpiry ==
    \/ CancelListing
    \/ ExecuteSale
    \/ CancelBid
    \/ AcceptBid
    \/ EndTransaction
    \/ Tick

SpecExpiry == InitExpiry /\ [][NextExpiry]_vars

\* The instructions that act on a record already there.
OnRecord == {"cancel_listing", "execute_sale", "cancel_bid", "accept_bid"}

\* C21: expiry is advisory only.  What cancel_listing, execute_sale,
\* cancel_bid and accept_bid answer is decided by the record being there, by
\* the caller, by the settlement arithmetic and by the balances, the same
\* before the record's expiry as after it, and none of them touches the
\* clock or the expiry; and a Listing or Bid record goes away only as the
\* effect of a successful cancel of it, of a successful sale of its last
\* unit (the account it emptied is dropped when the transaction ends), or of
\* a successful accept of it: time passing removes nothing.
C21_ExpiryAdvisory ==
    [][ /\ \A k \in Keys :
           /\ (listings[k].exists /\ ~listings'[k].exists)
              => \/ /\ Step("cancel_listing")
                    /\ last'.key = k
                    /\ last'.result = "Ok"
                 \/ ops' = ops /\ Drained(listings[k])
           /\ (Live(listings[k]) /\ Drained(listings'[k]))
              => /\ Step("execute_sale")
                 /\ last'.key = k
                 /\ last'.result = "Ok"
                 /\ listings[k].quantity = 1
           /\ (bids[k].exists /\ ~bids'[k].exists)
              => /\ Step("cancel_bid") \/ Step("accept_bid")
                 /\ last'.key = k
                 /\ last'.result = "Ok"
           /\ (listings[k].exists /\ listings'[k].exists)
              => listings'[k].expiry = listings[k].expiry
           /\ (bids[k].exists /\ bids'[k].exists)
              => bids'[k].expiry = bids[k].expiry
        /\ (ops' = ops + 1 /\ last'.op \in OnRecord)
           => LET key == last'.key
                  caller == last'.caller
                  listing == listings[key]
                  bid == bids[key]
              IN  /\ now' = now
                  /\ Step("cancel_listing")
                     => last'.result =
                           IF ~listing.exists THEN "NotFound"
                           ELSE IF caller # listing.seller THEN "Unauthorized"
                           ELSE IF tokens[Vault(listing.nft_mint)]
                                      < listing.quantity
                           THEN "CustodyTransferFailed"
                           ELSE "Ok"
                  /\ Step("cancel_bid")
                     => last'.result =
                           IF ~bid.exists THEN "NotFound"
                           ELSE IF caller # bid.bidder THEN "Unauthorized"
                           ELSE IF funds[Escrow(bid.nft_mint)] < bid.price
                           THEN "CustodyTransferFailed"
                           ELSE "Ok"
                  /\ Step("execute_sale")
                     => /\ last'.result = "NotFound" <=> ~listing.exists
                        /\ last'.result \in
                              {"NotFound", "ArithmeticOverflow",
                               "NotEnoughAccountKeys",
                               "CustodyTransferFailed", "Ok"}
                        /\ (listing.exists
                            /\ listing.quantity > 0
                            /\ tokens[Vault(listing.nft_mint)] > 0
                            /\ funds[Wallet(caller)] >= listing.price
                            /\ last'.transfers = <<>>)
                           => last'.result \in {"ArithmeticOverflow",
                                                "NotEnoughAccountKeys"}
                  /\ Step("accept_bid")
                     => /\ last'.result = "NotFound" <=> ~bid.exists
                        /\ last'.result \in
                              {"NotFound", "ArithmeticOverflow",
                               "NotEnoughAccountKeys",
                               "CustodyTransferFailed", "Ok"}
      ]_vars

\* A sale of a listing whose expiry has passed went through.
C21_Witness ==
    /\ last.op = "execute_sale"
    /\ last.result = "Ok"
    /\ listings[last.key].exists
    /\ listings[last.key].expiry < now

-----------------------------------------------------------------------------
(* Nothing stranded *)

\* The Bid records that are live on an asset.
LiveBids(nft_mint) == {k \in Keys : k[2] = nft_mint /\ bids[k].exists}

\* The Listing records that are live on an asset.
LiveListings(nft_mint) == {k \in Keys : k[2] = nft_mint /\ Live(listings[k])}

RECURSIVE RemainingQuantity(_)
\* The units the listings of a set of keys still offer.
RemainingQuantity(keys) ==
    IF keys = {} THEN 0
    ELSE LET k == CHOOSE x \in keys : TRUE
         IN  listings[k].quantity + RemainingQuantity(keys \ {k})

\* Escrow half of C22 (see below): with no live Bid record on an asset, the
\* escrow of the asset holds nothing.
EscrowNotStranded ==
    \A nft_mint \in Assets :
        LiveBids(nft_mint) = {} => funds[Escrow(nft_mint)] = 0

\* Vault half of C22 (see below): the vault of an asset holds no more units
\* than its live listings still offer.
VaultNotStranded ==
    \A nft_mint \in Assets :
        tokens[Vault(nft_mint)] <= RemainingQuantity(LiveListings(nft_mint))

\* C22: no value or asset is stranded.  In every reachable state an escrow
\* with no live Bid record behind it holds 0 (so it is empty once the bid it
\* held the price of has been accepted or cancelled), and a vault holds no
\* more asset units than the sum of the remaining quantities of the live
\* listings it backs.  The escrow and the vault are the ones the program
\* keeps, one per asset.
C22_NothingStranded ==
    /\ EscrowNotStranded
    /\ VaultNotStranded

====
